---- MODULE Spec2Model ----
(***************************************************************************)
(* Participant lifecycle store of src/db.py (class Storage), as a state    *)
(* machine.  The store is one SQLite database in WAL mode; every Storage   *)
(* method opens its own connection.  With the sqlite3 driver a SELECT runs *)
(* in autocommit mode and sees the last committed state; the first         *)
(* INSERT/UPDATE/DELETE of a connection opens a write transaction that     *)
(* holds the single write lock until commit() (other writers wait on       *)
(* busy_timeout).  So every SELECT is one atomic step and every            *)
(* "write statements ... commit()" block is one atomic step; the awaits    *)
(* between them are the points where other callers interleave.             *)
(*                                                                         *)
(* Columns that no statement of the lifecycle reads back (user_id,         *)
(* chat_id, first_name, last_name, created_at, registered_ip, payload,     *)
(* ip, user_agent) are left out; username stands for the contact metadata  *)
(* that the upsert of register refreshes.  A nullable column holds {} for  *)
(* NULL and {v} for the value v.  The tables exist: init() has run; the    *)
(* gate of init() is followed in SpecInit only.                             *)
(***************************************************************************)
EXTENDS Integers, Sequences, FiniteSets, TLC

\* ------------------------------------------------------------- bounds
NumProcs == 2
NumUids == 1
MaxCalls == 4
NumPendingUids == 2
MaxStamp == 2
MaxLogLen == 3
MaxQueries == 2
NumCallers == 3

Procs == 1..NumProcs
Uids == 1..NumUids
Usernames == {"alice", "bob"}
ContestNames == {"Default Contest", "Spring"}
AdminIds == {5, 9}
Notes == {{}, {"late"}}
DecideActions == {"approve", "reject"}
PendingUids == 1..NumPendingUids
Limits == (0 - 1)..NumPendingUids
Callers == 1..NumCallers

\* ------------------------------------------------------------- state
VARIABLES
    contests,     \* table contests: id -> [name, is_active]
    contestSeq,   \* sqlite_sequence of contests (AUTOINCREMENT never reuses an id)
    participants, \* table participants: uid -> row
    submissions,  \* table submissions, in id order: <<[uid, received_at], ...>>
    clock,        \* last value utc_now_iso() returned
    tokenSeq,     \* number of tokens secrets.token_urlsafe has produced
    pc,           \* per caller: the statement its coroutine is suspended before
    call,         \* per caller: the method and arguments of its current call,
                  \* with the number of the call
    local,        \* per caller: local variables of the running method
    ret,          \* per caller: what its last completed call returned or raised
    calls,        \* number of calls started
    gate          \* the Storage object's initialization gate: _init_guard,
                  \* _initialized, the state of the asyncio.Lock, and what has
                  \* happened at the gate so far

vars == <<contests, contestSeq, participants, submissions, clock, tokenSeq,
          pc, call, local, ret, calls, gate>>

store == <<contests, contestSeq, participants, submissions>>

NULL == {}

DefaultContestId == 1

Terminal == {"approved", "rejected"}

NoCall == [id |-> 0, kind |-> "none", uid |-> 0, username |-> "", token |-> 0,
           action |-> "", admin_id |-> 0, note |-> NULL, name |-> "", limit |-> 0]

NoLocal == [active_contest_id |-> 0, token |-> 0, row |-> NULL, stamp |-> 0,
            action_norm |-> ""]

NoRet == [tag |-> "none", val |-> 0]

Returned(tag, val) == [tag |-> tag, val |-> val]

Raised(err) == [tag |-> "error", val |-> err]

\* ------------------------------------------------------------- helpers

\* utc_now_iso(): wall-clock reads are distinct and increasing.
utc_now_iso == clock + 1

\* secrets.token_urlsafe(24): a token never produced before.
token_urlsafe == tokenSeq + 1

Min(S) == CHOOSE x \in S : \A y \in S : x <= y

\* SELECT id FROM contests WHERE is_active = 1 LIMIT 1 (a rowid-order table scan).
get_active_contest_id(cs) ==
    LET active == {i \in DOMAIN cs : cs[i].is_active}
    IN  IF active = {} THEN NULL ELSE {Min(active)}

\* Variant: every registration is bound to the default id.
RegisterContestIdDefault(active) == DefaultContestId

\* get_all_contests: one record per contest row (the order of the list, by
\* created_at, is left out with the column).
get_all_contests(cs) ==
    {[id |-> i, name |-> cs[i].name, is_active |-> cs[i].is_active] : i \in DOMAIN cs}

\* register: "if not active_contest_id: active_contest_id = 1".
RegisterContestId(active) ==
    IF active = NULL THEN DefaultContestId ELSE CHOOSE i \in active : TRUE

NewParticipant(token, username, contest_id) ==
    [token |-> token, username |-> username, status |-> "registered",
     decided_at |-> NULL, decision |-> NULL, decision_by |-> NULL,
     decision_note |-> NULL, contest_id |-> contest_id]

Put(f, k, v) == [x \in DOMAIN f \cup {k} |-> IF x = k THEN v ELSE f[x]]

\* INSERT INTO participants ... ON CONFLICT(uid) DO UPDATE SET <contact metadata>.
UpsertParticipant(ps, uid, token, username, contest_id) ==
    IF uid \in DOMAIN ps
    THEN [ps EXCEPT ![uid].username = username]
    ELSE Put(ps, uid, NewParticipant(token, username, contest_id))

\* ------------------------------------------------------------- calls

Idle(p) == pc[p] \in {"idle", "done"}

Start(p, c) ==
    /\ Idle(p)
    /\ calls < MaxCalls
    /\ calls' = calls + 1
    /\ call' = [call EXCEPT ![p] = [c EXCEPT !.id = calls + 1]]

\* A call of a method that works on the tables: its "await self.init()" is not
\* followed here, the gate is left as it is.
Begin(p, c) ==
    /\ Start(p, c)
    /\ UNCHANGED gate

Finish(p, r) ==
    /\ pc' = [pc EXCEPT ![p] = "done"]
    /\ ret' = [ret EXCEPT ![p] = r]

\* ---- register (src/db.py 167-226)

\* Variant: the early return on an existing row is missing.
RegisterNeverFound(ps, uid) == FALSE

\* "if row and row[0]: return str(row[0])" (a stored token is never empty).
RegisterFound(ps, uid) == uid \in DOMAIN ps

\* The call, up to the result of get_active_contest_id().
Register(p, uid, username) ==
    /\ Begin(p, [NoCall EXCEPT !.kind = "register", !.uid = uid,
                               !.username = username])
    /\ local' = [local EXCEPT ![p] =
                    [NoLocal EXCEPT !.active_contest_id =
                        RegisterContestId(get_active_contest_id(contests))]]
    /\ pc' = [pc EXCEPT ![p] = "register_select"]
    /\ UNCHANGED <<store, clock, tokenSeq, ret>>

\* SELECT token FROM participants WHERE uid = ?; return it, or draw a new token.
RegisterSelect(p) ==
    /\ pc[p] = "register_select"
    /\ UNCHANGED gate
    /\ IF RegisterFound(participants, call[p].uid)
       THEN /\ Finish(p, Returned("token", participants[call[p].uid].token))
            /\ UNCHANGED <<local, tokenSeq, clock>>
       ELSE /\ local' = [local EXCEPT ![p].token = token_urlsafe]
            /\ tokenSeq' = tokenSeq + 1
            /\ pc' = [pc EXCEPT ![p] = "register_insert"]
            /\ UNCHANGED <<ret, clock>>
    /\ UNCHANGED <<store, call, calls>>

\* Variant: the reference to contests is not enforced.
ForeignKeyUnchecked(cs, ps, uid, contest_id) == FALSE

\* contest_id REFERENCES contests(id) under PRAGMA foreign_keys=ON: a row is not
\* inserted for a contest id that no contest row has (the conflict branch of the
\* upsert leaves contest_id alone and inserts nothing).
ForeignKeyFails(cs, ps, uid, contest_id) ==
    uid \notin DOMAIN ps /\ contest_id \notin DOMAIN cs

\* The upsert, commit() and "return token"; a failed INSERT raises and the
\* connection closes without a commit.
RegisterInsert(p) ==
    /\ pc[p] = "register_insert"
    /\ UNCHANGED gate
    /\ IF ForeignKeyFails(contests, participants, call[p].uid,
                          local[p].active_contest_id)
       THEN /\ Finish(p, Raised("IntegrityError"))
            /\ UNCHANGED participants
       ELSE /\ participants' = UpsertParticipant(participants, call[p].uid,
                                    local[p].token, call[p].username,
                                    local[p].active_contest_id)
            /\ Finish(p, Returned("token", local[p].token))
    /\ UNCHANGED <<contests, contestSeq, submissions, clock, tokenSeq, call, local, calls>>

\* ---- confirm (src/db.py 228-289)

\* Variant: a comparison that is not an equality.
TokenMatchesLoosely(expected_token, token) == token <= expected_token

\* "if str(expected_token) != str(token): raise bad_token".
TokenMatches(expected_token, token) == expected_token = token

\* Variant: an UPDATE without the CASE, every confirmation marks the uid submitted.
ConfirmStatusOverwrites(status) == "submitted_for_current_contest"

\* The CASE of the UPDATE: a decided participant keeps its status.
ConfirmStatus(status) ==
    IF status \in Terminal THEN status
    ELSE "submitted_for_current_contest"

\* Variant: a missing row is reported as a token mismatch.
ConfirmCheckTokenOnly(ps, uid, token) ==
    IF uid \in DOMAIN ps /\ TokenMatches(ps[uid].token, token) THEN "pass"
    ELSE "bad_token"

\* "if not row: raise unknown_uid", then the token check, on the selected row.
ConfirmCheck(ps, uid, token) ==
    IF uid \notin DOMAIN ps THEN "unknown_uid"
    ELSE IF ~TokenMatches(ps[uid].token, token) THEN "bad_token"
    ELSE "pass"

\* The call, up to the checks on the selected row and received_at = utc_now_iso().
Confirm(p, uid, token) ==
    /\ Begin(p, [NoCall EXCEPT !.kind = "confirm", !.uid = uid, !.token = token])
    /\ IF ConfirmCheck(participants, uid, token) # "pass"
       THEN /\ Finish(p, Raised(ConfirmCheck(participants, uid, token)))
            /\ local' = [local EXCEPT ![p] = NoLocal]
            /\ UNCHANGED clock
       ELSE /\ local' = [local EXCEPT ![p] =
                           [NoLocal EXCEPT !.row = {participants[uid]},
                                           !.stamp = utc_now_iso]]
            /\ clock' = clock + 1
            /\ pc' = [pc EXCEPT ![p] = "confirm_write"]
            /\ UNCHANGED ret
    /\ UNCHANGED <<store, tokenSeq>>

\* Variant: one row per uid, a later submission takes the place of an earlier one.
InsertSubmissionReplacing(subs, uid, received_at) ==
    Append(SelectSeq(subs, LAMBDA s : s.uid # uid),
           [uid |-> uid, received_at |-> received_at])

\* INSERT INTO submissions (uid, received_at, ...) VALUES (...): a new row with the
\* next id; the log is kept in id order.
InsertSubmission(subs, uid, received_at) ==
    Append(subs, [uid |-> uid, received_at |-> received_at])

\* INSERT INTO submissions, UPDATE participants SET status = CASE ..., commit().
\* foreign_keys=ON: the insert fails when the participant row is gone, and the
\* connection closes without a commit.
ConfirmWrite(p) ==
    /\ pc[p] = "confirm_write"
    /\ UNCHANGED gate
    /\ IF call[p].uid \notin DOMAIN participants
       THEN /\ Finish(p, Raised("IntegrityError"))
            /\ UNCHANGED store
       ELSE /\ submissions' = InsertSubmission(submissions, call[p].uid,
                                                local[p].stamp)
            /\ participants' = [participants EXCEPT ![call[p].uid].status =
                                   ConfirmStatus(participants[call[p].uid].status)]
            /\ Finish(p, Returned("ok", 0))
            /\ UNCHANGED <<contests, contestSeq>>
    /\ UNCHANGED <<clock, tokenSeq, call, local, calls>>

\* ---- get_participant (src/db.py 482-509)

get_participant(ps, uid) == IF uid \in DOMAIN ps THEN {ps[uid]} ELSE NULL

\* ---- set_status_to_awaiting_approval (src/db.py 354-378)

\* Variant: WHERE uid = ?, without the condition on the status.
PromoteMatchesAnyStatus(ps, uid) == uid \in DOMAIN ps

\* WHERE uid = ? AND status = 'submitted_for_current_contest', of the SELECT and
\* of the UPDATE.
PromoteMatches(ps, uid) ==
    uid \in DOMAIN ps /\ ps[uid].status = "submitted_for_current_contest"

\* The call, up to "SELECT status ..." and "if not row: return None".
Promote(p, uid) ==
    /\ Begin(p, [NoCall EXCEPT !.kind = "promote", !.uid = uid])
    /\ local' = [local EXCEPT ![p] = NoLocal]
    /\ IF PromoteMatches(participants, uid)
       THEN /\ pc' = [pc EXCEPT ![p] = "promote_update"]
            /\ UNCHANGED ret
       ELSE Finish(p, Returned("None", 0))
    /\ UNCHANGED <<store, clock, tokenSeq>>

\* UPDATE participants SET status = 'awaiting_approval' WHERE uid = ? AND status = ...
PromoteUpdated(ps, uid) ==
    IF PromoteMatches(ps, uid) THEN [ps EXCEPT ![uid].status = "awaiting_approval"]
    ELSE ps

\* The UPDATE, "rows_affected = db.rowcount" and commit().  rowcount is read from
\* the connection, not from a cursor.  aiosqlite.Connection defines no such
\* attribute: the read raises AttributeError before commit() and the connection
\* closes with the UPDATE uncommitted.  The source names no version of the driver,
\* so a connection that does report the statement's row count is the other outcome.
PromoteUpdate(p) ==
    /\ pc[p] = "promote_update"
    /\ UNCHANGED gate
    /\ \/ /\ Finish(p, Raised("AttributeError"))
          /\ UNCHANGED store
       \/ /\ participants' = PromoteUpdated(participants, call[p].uid)
          /\ IF PromoteMatches(participants, call[p].uid)
             THEN /\ pc' = [pc EXCEPT ![p] = "promote_return"]
                  /\ UNCHANGED ret
             ELSE Finish(p, Returned("None", 0))
          /\ UNCHANGED <<contests, contestSeq, submissions>>
    /\ UNCHANGED <<clock, tokenSeq, call, local, calls>>

\* "return await self.get_participant(uid)".
PromoteReturn(p) ==
    /\ pc[p] = "promote_return"
    /\ UNCHANGED gate
    /\ LET row == get_participant(participants, call[p].uid)
       IN  IF row = NULL THEN Finish(p, Returned("None", 0))
           ELSE Finish(p, Returned("participant", CHOOSE r \in row : TRUE))
    /\ UNCHANGED <<store, clock, tokenSeq, call, local, calls>>

\* ---- decide (src/db.py 398-470)

Coalesce(a, b) == IF a = NULL THEN b ELSE a

\* Variant: the decision the selected row holds is ignored.
ActionNormRequested(action, current_decision) ==
    IF action = "approve" THEN "approved" ELSE "rejected"

\* action_norm: the requested action, or the decision the selected row holds.
ActionNorm(action, current_decision) ==
    IF current_decision \in {{"approved"}, {"rejected"}}
    THEN CHOOSE d \in current_decision : TRUE
    ELSE IF action = "approve" THEN "approved" ELSE "rejected"

\* Variant: the UPDATE sets status and leaves the decision column alone.
DecideUpdatedStatusOnly(ps, uid, action_norm, decided_at, admin_id, note) ==
    IF uid \notin DOMAIN ps THEN ps
    ELSE [ps EXCEPT ![uid].status = action_norm,
                    ![uid].decided_at = Coalesce(@, {decided_at}),
                    ![uid].decision_by = Coalesce(@, {admin_id}),
                    ![uid].decision_note = Coalesce(@, note)]

\* Variant: decided_at and decision_by are assigned without COALESCE.
DecideUpdatedOverwriting(ps, uid, action_norm, decided_at, admin_id, note) ==
    IF uid \notin DOMAIN ps THEN ps
    ELSE [ps EXCEPT ![uid].status = action_norm,
                    ![uid].decision = {action_norm},
                    ![uid].decided_at = {decided_at},
                    ![uid].decision_by = {admin_id},
                    ![uid].decision_note = Coalesce(@, note)]

\* UPDATE participants SET status = ?, decision = ?, decided_at = COALESCE(...), ...
DecideUpdated(ps, uid, action_norm, decided_at, admin_id, note) ==
    IF uid \notin DOMAIN ps THEN ps
    ELSE [ps EXCEPT ![uid].status = action_norm,
                    ![uid].decision = {action_norm},
                    ![uid].decided_at = Coalesce(@, {decided_at}),
                    ![uid].decision_by = Coalesce(@, {admin_id}),
                    ![uid].decision_note = Coalesce(@, note)]

\* The call, up to the selected row, decided_at = utc_now_iso() and action_norm.
Decide(p, uid, action, admin_id, note) ==
    /\ Begin(p, [NoCall EXCEPT !.kind = "decide", !.uid = uid, !.action = action,
                               !.admin_id = admin_id, !.note = note])
    /\ IF uid \notin DOMAIN participants
       THEN /\ Finish(p, Raised("unknown_uid"))
            /\ local' = [local EXCEPT ![p] = NoLocal]
            /\ UNCHANGED clock
       ELSE /\ local' = [local EXCEPT ![p] =
                           [NoLocal EXCEPT !.row = {participants[uid]},
                                           !.stamp = utc_now_iso,
                                           !.action_norm =
                                               ActionNorm(action, participants[uid].decision)]]
            /\ clock' = clock + 1
            /\ pc' = [pc EXCEPT ![p] = "decide_update"]
            /\ UNCHANGED ret
    /\ UNCHANGED <<store, tokenSeq>>

\* The UPDATE and commit().
DecideUpdate(p) ==
    /\ pc[p] = "decide_update"
    /\ UNCHANGED gate
    /\ participants' = DecideUpdated(participants, call[p].uid, local[p].action_norm,
                                     local[p].stamp, call[p].admin_id, call[p].note)
    /\ pc' = [pc EXCEPT ![p] = "decide_return"]
    /\ UNCHANGED <<contests, contestSeq, submissions, clock, tokenSeq, call, local,
                   ret, calls>>

\* The second SELECT, "assert row2 is not None" and the returned Participant.
DecideReturn(p) ==
    /\ pc[p] = "decide_return"
    /\ UNCHANGED gate
    /\ LET row2 == get_participant(participants, call[p].uid)
       IN  IF row2 = NULL THEN Finish(p, Raised("AssertionError"))
           ELSE Finish(p, Returned("participant", CHOOSE r \in row2 : TRUE))
    /\ UNCHANGED <<store, clock, tokenSeq, call, local, calls>>

\* ---- reset (src/db.py 472-480)

\* Variant: a DELETE that removes nothing.
DeletedNot(table) == table

\* DELETE FROM <table>, without a WHERE clause.
Deleted(table) == <<>>

\* The three DELETE statements and commit() (the statements indented under the
\* one-line "def ...: docstring" header are taken as the body of reset).
Reset(p) ==
    /\ Begin(p, [NoCall EXCEPT !.kind = "reset"])
    /\ submissions' = Deleted(submissions)
    /\ participants' = Deleted(participants)
    /\ contests' = Deleted(contests)
    /\ local' = [local EXCEPT ![p] = NoLocal]
    /\ Finish(p, Returned("ok", 0))
    /\ UNCHANGED <<contestSeq, clock, tokenSeq>>

\* ---- contests (src/db.py 130-149)

NameTaken(cs, name) == \E i \in DOMAIN cs : cs[i].name = name

\* Variant: no contest is deactivated.
DeactivatedNone(cs) == cs

\* UPDATE contests SET is_active = 0 WHERE is_active = 1.
Deactivated(cs) == [i \in DOMAIN cs |-> [cs[i] EXCEPT !.is_active = FALSE]]

\* Variant: the statements that ran before the failing one stay in the table.
RolledBackNot(committed, written) == written

\* An exception leaves "async with aiosqlite.connect(...)" before commit(): the
\* connection closes and the table is as it was last committed.
RolledBack(committed, written) == committed

\* Both statements and commit(); a taken name fails the INSERT (name is UNIQUE)
\* and the connection closes without a commit.
CreateContest(p, name) ==
    /\ Begin(p, [NoCall EXCEPT !.kind = "create_contest", !.name = name])
    /\ local' = [local EXCEPT ![p] = NoLocal]
    /\ IF NameTaken(contests, name)
       THEN /\ Finish(p, Raised("IntegrityError"))
            /\ contests' = RolledBack(contests, Deactivated(contests))
            /\ UNCHANGED contestSeq
       ELSE /\ contests' = Put(Deactivated(contests), contestSeq + 1,
                               [name |-> name, is_active |-> TRUE])
            /\ contestSeq' = contestSeq + 1
            /\ Finish(p, Returned("id", contestSeq + 1))
    /\ UNCHANGED <<participants, submissions, clock, tokenSeq>>

\* INSERT OR IGNORE INTO contests (name, is_active) VALUES ('Default Contest', 1)
\* and commit().  SQLite draws the AUTOINCREMENT id before it meets the conflict:
\* an ignored insert still advances sqlite_sequence.
CreateDefaultContest(p) ==
    /\ Begin(p, [NoCall EXCEPT !.kind = "create_default_contest"])
    /\ local' = [local EXCEPT ![p] = NoLocal]
    /\ IF NameTaken(contests, "Default Contest")
       THEN UNCHANGED contests
       ELSE contests' = Put(contests, contestSeq + 1,
                            [name |-> "Default Contest", is_active |-> TRUE])
    /\ contestSeq' = contestSeq + 1
    /\ Finish(p, Returned("ok", 0))
    /\ UNCHANGED <<participants, submissions, clock, tokenSeq>>

\* ---- pending (src/db.py 291-332)

Max(S) == CHOOSE x \in S : \A y \in S : x >= y

\* (SELECT s.received_at FROM submissions s WHERE s.uid = p.uid
\*  ORDER BY s.id DESC LIMIT 1): the time of the row inserted last, NULL without one.
last_received_at(subs, uid) ==
    LET ids == {i \in DOMAIN subs : subs[i].uid = uid}
    IN  IF ids = {} THEN NULL ELSE {subs[Max(ids)].received_at}

\* Variant: WHERE p.contest_id = ?, without the conditions on status and decision.
PendingMatchesContestOnly(ps, uid, contest_id) ==
    uid \in DOMAIN ps /\ ps[uid].contest_id = contest_id

\* WHERE p.contest_id = ? AND p.status = 'awaiting_approval'
\*   AND (p.decision IS NULL OR p.decision = '')   (no statement stores '').
PendingMatches(ps, uid, contest_id) ==
    /\ uid \in DOMAIN ps
    /\ ps[uid].contest_id = contest_id
    /\ ps[uid].status = "awaiting_approval"
    /\ ps[uid].decision = NULL

\* Sort key of ORDER BY last_received_at: NULL sorts below every value.
SortKey(t) == IF t = NULL THEN 0 ELSE CHOOSE v \in t : TRUE

PendingRow(subs, uid) ==
    [uid |-> uid, last_received_at |-> last_received_at(subs, uid)]

\* The rows of the SELECT in every order that ORDER BY last_received_at DESC
\* allows: rows with equal times come in any order.
PendingOrders(ps, subs, contest_id) ==
    LET matching == {uid \in DOMAIN ps : PendingMatches(ps, uid, contest_id)}
        n == Cardinality(matching)
    IN  {[i \in 1..n |-> PendingRow(subs, f[i])] :
            f \in {g \in [1..n -> matching] :
                      /\ \A i, j \in 1..n : i # j => g[i] # g[j]
                      /\ \A i, j \in 1..n :
                            i < j => SortKey(last_received_at(subs, g[i]))
                                        >= SortKey(last_received_at(subs, g[j]))}}

\* LIMIT ?: the first n rows; a negative LIMIT is no limit in SQLite.
Limit(rows, n) ==
    IF n < 0 \/ n >= Len(rows) THEN rows ELSE SubSeq(rows, 1, n)

\* The call, up to "if not active_contest_id: return []" (pending does not call
\* init()).
Pending(p, limit) ==
    /\ Begin(p, [NoCall EXCEPT !.kind = "pending", !.limit = limit])
    /\ IF get_active_contest_id(contests) = NULL
       THEN /\ Finish(p, Returned("rows", <<>>))
            /\ local' = [local EXCEPT ![p] = NoLocal]
       ELSE /\ local' = [local EXCEPT ![p] =
                           [NoLocal EXCEPT !.active_contest_id =
                               CHOOSE i \in get_active_contest_id(contests) : TRUE]]
            /\ pc' = [pc EXCEPT ![p] = "pending_select"]
            /\ UNCHANGED ret
    /\ UNCHANGED <<store, clock, tokenSeq>>

\* The SELECT ... ORDER BY ... LIMIT ? and the returned list.
PendingSelect(p) ==
    /\ pc[p] = "pending_select"
    /\ UNCHANGED gate
    /\ \E rows \in PendingOrders(participants, submissions, local[p].active_contest_id) :
          Finish(p, Returned("rows", Limit(rows, call[p].limit)))
    /\ UNCHANGED <<store, clock, tokenSeq, call, local, calls>>

\* ---- init (src/db.py 39-55, 126-128)

\* __init__: no lock object yet, not initialized.  tables: the schema is in the
\* database file; creations: runs of the schema block that have committed;
\* acquired: acquisitions of the lock so far.
FreshGate ==
    [guard |-> "None", initialized |-> FALSE, locked |-> FALSE, waiters |-> <<>>,
     tables |-> FALSE, creations |-> 0, acquired |-> 0]

\* The gate after the first init() of the process has returned.
OpenGate ==
    [guard |-> "Lock", initialized |-> TRUE, locked |-> FALSE, waiters |-> <<>>,
     tables |-> TRUE, creations |-> 1, acquired |-> 1]

\* "if self._init_guard is None: self._init_guard = asyncio.Lock()"; the coroutine
\* has no await of its own, so the test and the assignment are one step.
EnsureInitGuard(g) == IF g.guard = "None" THEN [g EXCEPT !.guard = "Lock"] ELSE g

\* Variant: a Storage that is initialized returns ahead of the lock.
EntersGateUntilInitialized(g) == ~g.initialized

\* "async with self._init_guard" comes before "if self._initialized": every call
\* of init() goes for the lock.
EntersGate(g) == TRUE

\* Variant: acquire() never waits.
LockAlwaysFree(g) == TRUE

\* asyncio.Lock.acquire returns at once when the lock is not held and no waiter
\* is queued; otherwise the caller queues and is suspended.
LockFree(g) == ~g.locked /\ g.waiters = <<>>

Acquired(g) == [g EXCEPT !.locked = TRUE, !.acquired = @ + 1]

\* release(): the lock is free and the first waiter is woken (InitWake).
Released(g) == [g EXCEPT !.locked = FALSE]

\* init() has returned: the method goes on to open its connection.
InitDone(p) ==
    /\ pc' = [pc EXCEPT ![p] = "select_contests"]
    /\ UNCHANGED ret

\* Inside the lock: "if self._initialized: return", else on to the schema block,
\* whose first statement awaits the connection.
InsideGate(p, g) ==
    IF g.initialized
    THEN /\ gate' = Released(g)
         /\ InitDone(p)
    ELSE /\ gate' = g
         /\ pc' = [pc EXCEPT ![p] = "init_create"]
         /\ UNCHANGED ret

\* A call of get_all_contests: "await self.init()", up to the first suspension
\* of init().
InitCall(p) ==
    /\ Start(p, [NoCall EXCEPT !.kind = "get_all_contests"])
    /\ local' = [local EXCEPT ![p] = NoLocal]
    /\ LET g == EnsureInitGuard(gate)
       IN  IF ~EntersGate(g)
           THEN /\ gate' = g
                /\ InitDone(p)
           ELSE IF LockFree(g)
           THEN InsideGate(p, Acquired(g))
           ELSE /\ gate' = [g EXCEPT !.waiters = Append(@, p)]
                /\ pc' = [pc EXCEPT ![p] = "init_wait"]
                /\ UNCHANGED ret
    /\ UNCHANGED <<store, clock, tokenSeq>>

\* The first waiter resumes in acquire() once the lock has been released.
InitWake(p) ==
    /\ pc[p] = "init_wait"
    /\ ~gate.locked
    /\ gate.waiters # <<>> /\ Head(gate.waiters) = p
    /\ InsideGate(p, Acquired([gate EXCEPT !.waiters = Tail(@)]))
    /\ UNCHANGED <<store, clock, tokenSeq, call, local, calls>>

\* The schema block: PRAGMAs, CREATE TABLE/INDEX IF NOT EXISTS, commit().
InitCreate(p) ==
    /\ pc[p] = "init_create"
    /\ gate' = [gate EXCEPT !.tables = TRUE, !.creations = @ + 1]
    /\ pc' = [pc EXCEPT ![p] = "init_mark"]
    /\ UNCHANGED <<store, clock, tokenSeq, call, local, ret, calls>>

\* The connection is closed, "self._initialized = True", the lock is released and
\* init() returns.
InitMark(p) ==
    /\ pc[p] = "init_mark"
    /\ gate' = Released([gate EXCEPT !.initialized = TRUE])
    /\ InitDone(p)
    /\ UNCHANGED <<store, clock, tokenSeq, call, local, calls>>

\* get_all_contests after init(): SELECT ... FROM contests on a connection of its
\* own; without the schema SQLite raises "no such table".
SelectContests(p) ==
    /\ pc[p] = "select_contests"
    /\ IF gate.tables
       THEN Finish(p, Returned("rows", get_all_contests(contests)))
       ELSE Finish(p, Raised("OperationalError"))
    /\ UNCHANGED <<store, clock, tokenSeq, call, local, calls, gate>>

\* ------------------------------------------------------------- specification

\* The database file outlives the process: it is new (init() has created empty
\* tables), or it holds the default contest that an earlier
\* create_default_contest_if_not_exists() has left in it.
SeededContests == Put(<<>>, 1, [name |-> "Default Contest", is_active |-> TRUE])

Init ==
    /\ contests \in {<<>>, SeededContests}
    /\ contestSeq = Cardinality(DOMAIN contests)
    /\ participants = <<>>
    /\ submissions = <<>>
    /\ clock = 0
    /\ tokenSeq = 0
    /\ pc = [p \in Procs |-> "idle"]
    /\ call = [p \in Procs |-> NoCall]
    /\ local = [p \in Procs |-> NoLocal]
    /\ ret = [p \in Procs |-> NoRet]
    /\ calls = 0
    /\ gate = OpenGate

Next ==
    \/ \E p \in Procs, uid \in Uids, username \in Usernames : Register(p, uid, username)
    \/ \E p \in Procs : RegisterSelect(p)
    \/ \E p \in Procs : RegisterInsert(p)
    \/ \E p \in Procs, uid \in Uids, token \in 0..tokenSeq : Confirm(p, uid, token)
    \/ \E p \in Procs : ConfirmWrite(p)
    \/ \E p \in Procs, uid \in Uids : Promote(p, uid)
    \/ \E p \in Procs : PromoteUpdate(p)
    \/ \E p \in Procs : PromoteReturn(p)
    \/ \E p \in Procs, uid \in Uids, action \in DecideActions, admin_id \in AdminIds,
          note \in Notes : Decide(p, uid, action, admin_id, note)
    \/ \E p \in Procs : DecideUpdate(p)
    \/ \E p \in Procs : DecideReturn(p)
    \/ \E p \in Procs : Reset(p)
    \/ \E p \in Procs, name \in ContestNames : CreateContest(p, name)
    \/ \E p \in Procs : CreateDefaultContest(p)

Spec == Init /\ [][Next]_vars

\* One call at a time: a call starts and runs while every other caller is idle.
Alone(p) == \A q \in Procs \ {p} : Idle(q)

NextSeq ==
    \/ \E p \in Procs, uid \in Uids, username \in Usernames :
          Alone(p) /\ Register(p, uid, username)
    \/ \E p \in Procs : Alone(p) /\ RegisterSelect(p)
    \/ \E p \in Procs : Alone(p) /\ RegisterInsert(p)
    \/ \E p \in Procs, uid \in Uids, token \in 0..tokenSeq :
          Alone(p) /\ Confirm(p, uid, token)
    \/ \E p \in Procs : Alone(p) /\ ConfirmWrite(p)
    \/ \E p \in Procs, uid \in Uids : Alone(p) /\ Promote(p, uid)
    \/ \E p \in Procs : Alone(p) /\ PromoteUpdate(p)
    \/ \E p \in Procs : Alone(p) /\ PromoteReturn(p)
    \/ \E p \in Procs, uid \in Uids, action \in DecideActions, admin_id \in AdminIds,
          note \in Notes : Alone(p) /\ Decide(p, uid, action, admin_id, note)
    \/ \E p \in Procs : Alone(p) /\ DecideUpdate(p)
    \/ \E p \in Procs : Alone(p) /\ DecideReturn(p)
    \/ \E p \in Procs : Alone(p) /\ Reset(p)
    \/ \E p \in Procs, name \in ContestNames : Alone(p) /\ CreateContest(p, name)
    \/ \E p \in Procs : Alone(p) /\ CreateDefaultContest(p)

SpecSeq == Init /\ [][NextSeq]_vars

\* ---- pending on a store at rest

Statuses == {"registered", "submitted_for_current_contest", "awaiting_approval",
             "approved", "rejected"}

\* The default contest and a contest that create_contest has made active after it.
TwoContests ==
    Put(Deactivated(SeededContests), 2, [name |-> "Spring", is_active |-> TRUE])

\* A participant row as register, confirm, set_status_to_awaiting_approval and
\* decide leave it: the decision columns are set with a decided status.
StoredParticipant(uid, status, contest_id) ==
    [NewParticipant(uid, "alice", contest_id) EXCEPT
        !.status = status,
        !.decision = IF status \in Terminal THEN {status} ELSE NULL,
        !.decided_at = IF status \in Terminal THEN {MaxStamp} ELSE NULL,
        !.decision_by = IF status \in Terminal THEN {5} ELSE NULL]

\* Submission logs over the participants ps: a registered participant has no
\* submission yet, a submitted or awaiting one has at least one.
StoredLogs(ps) ==
    {log \in UNION {[1..n -> [uid : DOMAIN ps, received_at : 1..MaxStamp]] :
                       n \in 0..MaxLogLen} :
        \A uid \in DOMAIN ps :
            LET rows == {i \in DOMAIN log : log[i].uid = uid}
            IN  /\ ps[uid].status = "registered" => rows = {}
                /\ ps[uid].status \in {"submitted_for_current_contest",
                                        "awaiting_approval"} => rows # {}}

\* The store holds what earlier calls have committed, and no writer is running:
\* participants of several uids in any status, bound to a contest that exists.
InitPending ==
    /\ contests \in {<<>>, SeededContests, TwoContests}
    /\ contestSeq = Cardinality(DOMAIN contests)
    /\ \E D \in SUBSET PendingUids :
          \E status \in [D -> Statuses], contest_id \in [D -> DOMAIN contests] :
              participants = [uid \in D |->
                                 StoredParticipant(uid, status[uid], contest_id[uid])]
    /\ submissions \in StoredLogs(participants)
    /\ clock = MaxStamp
    /\ tokenSeq = NumPendingUids
    /\ pc = [p \in Procs |-> "idle"]
    /\ call = [p \in Procs |-> NoCall]
    /\ local = [p \in Procs |-> NoLocal]
    /\ ret = [p \in Procs |-> NoRet]
    /\ calls = 0
    /\ gate = OpenGate

NextPending ==
    \/ \E p \in Procs, limit \in Limits : calls < MaxQueries /\ Pending(p, limit)
    \/ \E p \in Procs : PendingSelect(p)

SpecPending == InitPending /\ [][NextPending]_vars

\* ---- init() on a new Storage object

\* A Storage object has just been constructed, over a new database file or over
\* one that an earlier process has left with its schema.
InitFresh ==
    /\ gate \in {FreshGate, [FreshGate EXCEPT !.tables = TRUE]}
    /\ contests = <<>>
    /\ contestSeq = 0
    /\ participants = <<>>
    /\ submissions = <<>>
    /\ clock = 0
    /\ tokenSeq = 0
    /\ pc = [p \in Callers |-> "idle"]
    /\ call = [p \in Callers |-> NoCall]
    /\ local = [p \in Callers |-> NoLocal]
    /\ ret = [p \in Callers |-> NoRet]
    /\ calls = 0

NextInit ==
    \/ \E p \in Callers : InitCall(p)
    \/ \E p \in Callers : InitWake(p)
    \/ \E p \in Callers : InitCreate(p)
    \/ \E p \in Callers : InitMark(p)
    \/ \E p \in Callers : SelectContests(p)

SpecInit == InitFresh /\ [][NextInit]_vars

\* The event loop runs every coroutine that can run: a step that stays enabled
\* is taken.
SpecInitFair ==
    /\ SpecInit
    /\ \A p \in Callers :
          /\ WF_vars(InitWake(p)) /\ WF_vars(InitCreate(p))
          /\ WF_vars(InitMark(p)) /\ WF_vars(SelectContests(p))

\* ------------------------------------------------------------- properties

Requested(action) == IF action = "approve" THEN "approved" ELSE "rejected"

HasRow(uid) == uid \in DOMAIN participants

KeepsRow(uid) == uid \in DOMAIN participants /\ uid \in DOMAIN participants'

\* Caller p starts a call in this step.
Starts(p) == call'[p].id # call[p].id

\* Caller p's call returns or raises in this step.
Completes(p) == pc'[p] = "done" /\ (~Idle(p) \/ Starts(p))

DoneWith(p, kind) == pc[p] = "done" /\ call[p].kind = kind

\* C1: with one call running at a time, a register call that returns a token
\* returns the token the participant row holds, a register call for a registered
\* uid returns the token the row held before the call, and the token of a row
\* never changes while the row exists (only reset removes rows): all register
\* calls for a uid return the token of its first registration.
C1_RegisterReturnsFirstToken ==
    [][/\ \A uid \in Uids :
             KeepsRow(uid) => participants'[uid].token = participants[uid].token
       /\ \A p \in Procs :
             (Completes(p) /\ call'[p].kind = "register")
                 => /\ ret'[p].tag = "token"
                          => /\ call'[p].uid \in DOMAIN participants'
                             /\ ret'[p].val = participants'[call'[p].uid].token
                    /\ HasRow(call'[p].uid)
                          => ret'[p] = Returned("token",
                                                participants[call'[p].uid].token)]_vars

\* C1 witness: a register call for an already registered uid has returned while
\* the other caller holds the token of the first registration.
C1_Witness ==
    \E p, q \in Procs :
        /\ p # q
        /\ DoneWith(p, "register") /\ DoneWith(q, "register")
        /\ call[p].uid = call[q].uid
        /\ call[p].username # call[q].username
        /\ call[p].id < call[q].id
        /\ local[p].token # 0 /\ local[q].token = 0
        /\ ret[q] = ret[p]

\* C2: every register call that returns a token, also one racing another register
\* call for the same new uid, returns the token stored in the participant row (the
\* token confirm accepts).
C2_RacingRegisterReturnsStoredToken ==
    [][\A p \in Procs :
          (Completes(p) /\ call'[p].kind = "register" /\ ret'[p].tag = "token")
              => /\ call'[p].uid \in DOMAIN participants'
                 /\ TokenMatches(participants'[call'[p].uid].token, ret'[p].val)]_vars

\* C3: a promote call whose conditional UPDATE finds the participant still in
\* submitted_for_current_contest moves it to awaiting_approval and goes on to
\* return the participant; every other promote call returns None; none raises.
C3_OnePromoteSucceeds ==
    [][\A p \in Procs :
          (pc[p] = "promote_update" /\ pc'[p] # "promote_update")
              => IF PromoteMatches(participants, call[p].uid)
                 THEN /\ pc'[p] = "promote_return"
                      /\ participants'[call[p].uid].status = "awaiting_approval"
                 ELSE /\ pc'[p] = "done"
                      /\ ret'[p] = Returned("None", 0)]_vars

Rank(status) ==
    CASE status = "registered" -> 0
      [] status = "submitted_for_current_contest" -> 1
      [] status = "awaiting_approval" -> 2
      [] OTHER -> 3

C5_TerminalAbsorbing ==
    [][\A uid \in Uids :
          (KeepsRow(uid) /\ participants[uid].status \in Terminal)
              => /\ participants'[uid].status = participants[uid].status
                 /\ participants'[uid].decision = participants[uid].decision]_vars

\* The row a decide call selected held a decision.
SelectedDecided(p) == \E r \in local[p].row : r.decision # NULL

\* C6: with one call running at a time, a decide call on a participant that
\* already has a decision returns that decision as status and decision, whatever
\* action and admin_id it was given, and the stored status and decision keep it.
C6_LaterDecideReturnsOriginal ==
    [][\A p \in Procs :
          (pc[p] = "decide_return" /\ pc'[p] = "done" /\ SelectedDecided(p))
              => \E r \in local[p].row :
                    /\ ret'[p].tag = "participant"
                    /\ ret'[p].val.decision = r.decision
                    /\ {ret'[p].val.status} = r.decision
                    /\ r.status \in r.decision
                    /\ participants'[call[p].uid].status = r.status
                    /\ participants'[call[p].uid].decision = r.decision]_vars

\* C6 witness: a decide call asking for the opposite of the existing decision
\* has returned.
C6_Witness ==
    \E p \in Procs :
        /\ DoneWith(p, "decide")
        /\ SelectedDecided(p)
        /\ ret[p].tag = "participant"
        /\ Requested(call[p].action) \notin ret[p].val.decision

\* C7 as claimed: the UPDATE of a decide call that selected a row with a decision
\* (a call later than the first decide call) leaves decided_at, decision_by and
\* decision_note of that row as they were.
C7_DecisionFieldsFrozen ==
    [][\A p \in Procs :
          (pc[p] = "decide_update" /\ pc'[p] = "decide_return"
               /\ SelectedDecided(p) /\ KeepsRow(call[p].uid))
              => LET old == participants[call[p].uid]
                     new == participants'[call[p].uid]
                 IN  /\ new.decided_at = old.decided_at
                     /\ new.decision_by = old.decision_by
                     /\ new.decision_note = old.decision_note]_vars

\* C7 amended: once a participant has a decision, decided_at and decision_by never
\* change and a decision_note that is set never changes; a decision_note that is
\* still NULL takes the note of the next decide call.
C7_DecisionFieldsKeepFirstSet ==
    [][/\ \A uid \in Uids :
             (KeepsRow(uid) /\ participants[uid].decision # NULL)
                 => /\ participants'[uid].decided_at = participants[uid].decided_at
                    /\ participants'[uid].decision_by = participants[uid].decision_by
                    /\ participants[uid].decision_note # NULL
                          => participants'[uid].decision_note
                                 = participants[uid].decision_note
       /\ \A p \in Procs :
             (pc[p] = "decide_update" /\ pc'[p] = "decide_return"
                  /\ HasRow(call[p].uid)
                  /\ participants[call[p].uid].decision_note = NULL)
                 => participants'[call[p].uid].decision_note = call[p].note]_vars

\* C7 witness: a later decide call by another admin, with a note, has run on a
\* participant decided with a note, and returned the first decision_by.
C7_Witness ==
    \E p \in Procs :
        /\ DoneWith(p, "decide")
        /\ SelectedDecided(p)
        /\ ret[p].tag = "participant"
        /\ call[p].note # NULL
        /\ \E r \in local[p].row : r.decision_note # NULL
        /\ call[p].admin_id \notin ret[p].val.decision_by
        /\ local[p].stamp \notin ret[p].val.decided_at

\* C8: all decide calls on one participant row return the same decision, the row
\* holds that decision, and the row holds a caller's decided_at only together
\* with that caller's action.
C8_FirstDecisionWins ==
    \A p \in Procs :
        (DoneWith(p, "decide") /\ ret[p].tag = "participant")
            => /\ \A q \in Procs :
                     (DoneWith(q, "decide") /\ ret[q].tag = "participant"
                          /\ call[q].uid = call[p].uid
                          /\ ret[q].val.token = ret[p].val.token)
                         => ret[q].val.decision = ret[p].val.decision
               /\ (HasRow(call[p].uid)
                       /\ participants[call[p].uid].token = ret[p].val.token)
                     => /\ participants[call[p].uid].decision = ret[p].val.decision
                        /\ participants[call[p].uid].decided_at = {local[p].stamp}
                              => participants[call[p].uid].decision
                                     = {Requested(call[p].action)}

\* C9: a confirm call for a registered uid with a token other than the stored one
\* raises bad_token in the step that selects the row, and that step changes no
\* table.
C9_WrongTokenRejected ==
    [][\A p \in Procs :
          (Starts(p) /\ call'[p].kind = "confirm" /\ HasRow(call'[p].uid)
               /\ call'[p].token # participants[call'[p].uid].token)
              => /\ pc'[p] = "done"
                 /\ ret'[p] = Raised("bad_token")
                 /\ store' = store]_vars

\* C9 witness: a confirm call with a token issued to a racing register call, but
\* not stored, has been rejected.
C9_Witness ==
    \E p \in Procs :
        /\ DoneWith(p, "confirm")
        /\ ret[p] = Raised("bad_token")
        /\ HasRow(call[p].uid)
        /\ call[p].token # 0
        /\ submissions = <<>>

\* C10: a confirm or decide call for a uid without a participant row raises
\* unknown_uid in the step that selects the row, and that step changes no table.
C10_UnknownUidRejected ==
    [][\A p \in Procs :
          (Starts(p) /\ call'[p].kind \in {"confirm", "decide"}
               /\ ~HasRow(call'[p].uid))
              => /\ pc'[p] = "done"
                 /\ ret'[p] = Raised("unknown_uid")
                 /\ store' = store]_vars

\* C10 witness: a confirm call and a decide call for an unregistered uid have
\* both been rejected.
C10_Witness ==
    \E p, q \in Procs :
        /\ DoneWith(p, "confirm") /\ ret[p] = Raised("unknown_uid")
        /\ DoneWith(q, "decide") /\ ret[q] = Raised("unknown_uid")
        /\ call[p].uid = call[q].uid
        /\ ~HasRow(call[p].uid)

\* Number of rows of the submission log that belong to uid.
RowsOf(subs, uid) == Cardinality({i \in DOMAIN subs : subs[i].uid = uid})

\* Caller p's confirm call writes and returns in this step.
ConfirmSucceeds(p) ==
    pc[p] = "confirm_write" /\ pc'[p] = "done" /\ ret'[p] = Returned("ok", 0)

\* C11: the submission log is append-only.  A confirm call that succeeds adds
\* exactly one row for its uid, whatever the participant's status, and leaves every
\* earlier row as it was; a step that changes the log in any other way is a reset
\* step.  So the rows of a uid count its successful confirm calls since the last
\* reset.
C11_SubmissionLogAppendOnly ==
    [][/\ \A p \in Procs :
             ConfirmSucceeds(p) =>
                 /\ RowsOf(submissions', call[p].uid) = RowsOf(submissions, call[p].uid) + 1
                 /\ Len(submissions') = Len(submissions) + 1
                 /\ SubSeq(submissions', 1, Len(submissions)) = submissions
       /\ submissions' # submissions =>
             \/ \E p \in Procs : ConfirmSucceeds(p)
             \/ \E p \in Procs : Starts(p) /\ call'[p].kind = "reset"]_vars

\* Two successful confirm calls for a uid, the second one on a decided participant:
\* the log holds two rows of the uid.
C11_Witness ==
    \E p \in Procs :
        /\ DoneWith(p, "confirm") /\ ret[p] = Returned("ok", 0)
        /\ HasRow(call[p].uid)
        /\ participants[call[p].uid].status \in Terminal
        /\ RowsOf(submissions, call[p].uid) = 2

\* C12: a confirm call with the right token for a participant that is approved or
\* rejected is not turned away by the checks, and its write step, on a participant
\* that is approved or rejected, returns normally, adds one submission row of the
\* uid and leaves the participant row as it was: status, decision, decided_at,
\* decision_by and decision_note (and every other column) keep their values.
C12_ConfirmKeepsDecision ==
    [][\A p \in Procs :
          /\ ( /\ Starts(p) /\ call'[p].kind = "confirm"
               /\ HasRow(call'[p].uid)
               /\ participants[call'[p].uid].status \in Terminal
               /\ call'[p].token = participants[call'[p].uid].token )
             => pc'[p] = "confirm_write"
          /\ ( /\ pc[p] = "confirm_write" /\ pc'[p] = "done"
               /\ HasRow(call[p].uid)
               /\ participants[call[p].uid].status \in Terminal )
             => /\ ret'[p] = Returned("ok", 0)
                /\ RowsOf(submissions', call[p].uid) = RowsOf(submissions, call[p].uid) + 1
                /\ HasRow(call[p].uid)'
                /\ participants'[call[p].uid] = participants[call[p].uid]]_vars

\* A confirm call has returned for a participant it found rejected, with a note,
\* and the row is the one the call selected.
C12_Witness ==
    \E p \in Procs :
        /\ DoneWith(p, "confirm") /\ ret[p] = Returned("ok", 0)
        /\ HasRow(call[p].uid)
        /\ local[p].row = {participants[call[p].uid]}
        /\ participants[call[p].uid].status = "rejected"
        /\ participants[call[p].uid].decision = {"rejected"}
        /\ participants[call[p].uid].decision_note # NULL
        /\ RowsOf(submissions, call[p].uid) >= 1

\* C13: with one call running at a time, a promote call that has found its uid in
\* submitted_for_current_contest ends by returning the participant, not None and
\* not an exception, and both the returned participant and the stored row are in
\* awaiting_approval.
C13_PromoteReturnsParticipant ==
    [][\A p \in Procs :
          (pc[p] \in {"promote_update", "promote_return"} /\ pc'[p] = "done")
              => /\ ret'[p].tag = "participant"
                 /\ ret'[p].val.status = "awaiting_approval"
                 /\ HasRow(call[p].uid)'
                 /\ participants'[call[p].uid].status = "awaiting_approval"]_vars

\* C14: a promote call for a uid that has no participant row, or whose status is
\* registered, awaiting_approval, approved or rejected, returns None in its first
\* step, raises nothing and leaves every table as it was.
C14_PromoteElsewhereReturnsNone ==
    [][\A p \in Procs :
          ( /\ Starts(p) /\ call'[p].kind = "promote"
            /\ ~ ( /\ HasRow(call'[p].uid)
                   /\ participants[call'[p].uid].status = "submitted_for_current_contest" ) )
              => /\ pc'[p] = "done"
                 /\ ret'[p] = Returned("None", 0)
                 /\ store' = store]_vars

\* The latest call is a promote call that returned None, after a decide call, for
\* a participant that is approved.
C14_Witness ==
    \E p \in Procs, q \in Procs :
        /\ DoneWith(p, "promote") /\ ret[p] = Returned("None", 0)
        /\ call[p].id = calls
        /\ DoneWith(q, "decide") /\ call[q].uid = call[p].uid
        /\ HasRow(call[p].uid)
        /\ participants[call[p].uid].status = "approved"

\* C15: in every reachable state at most one contest row has is_active set.
C15_AtMostOneActiveContest ==
    Cardinality({i \in DOMAIN contests : contests[i].is_active}) <= 1

\* C16: a create_contest call that returns an id has added exactly one row, under
\* that id, with the requested name and is_active set; every contest that was there
\* before is still there with is_active cleared and its name kept; and
\* get_active_contest_id, asked right after the call, answers the returned id.
C16_CreateContestActivates ==
    [][\A p \in Procs :
          (Starts(p) /\ call'[p].kind = "create_contest" /\ ret'[p].tag = "id")
              => /\ ret'[p].val \notin DOMAIN contests
                 /\ DOMAIN contests' = DOMAIN contests \cup {ret'[p].val}
                 /\ contests'[ret'[p].val] =
                        [name |-> call'[p].name, is_active |-> TRUE]
                 /\ \A i \in DOMAIN contests :
                        contests'[i] = [name |-> contests[i].name, is_active |-> FALSE]
                 /\ get_active_contest_id(contests') = {ret'[p].val}]_vars

\* The latest call is a create_contest call that returned the id of the second
\* contest: the first one is no longer active and the new one is the active one.
C16_Witness ==
    \E p \in Procs :
        /\ DoneWith(p, "create_contest") /\ ret[p].tag = "id"
        /\ call[p].id = calls
        /\ Cardinality(DOMAIN contests) = 2
        /\ \E i \in DOMAIN contests : i < ret[p].val /\ ~contests[i].is_active
        /\ get_active_contest_id(contests) = {ret[p].val}

\* C17: a create_contest call with a name that a contest row already carries
\* raises the UNIQUE constraint's IntegrityError and leaves every table as it was:
\* no row is added, no id is used up, and the contest that was active is still
\* active (the deactivation is not committed on its own).
C17_DuplicateNameChangesNothing ==
    [][\A p \in Procs :
          ( /\ Starts(p) /\ call'[p].kind = "create_contest"
            /\ \E i \in DOMAIN contests : contests[i].name = call'[p].name )
              => /\ pc'[p] = "done"
                 /\ ret'[p] = Raised("IntegrityError")
                 /\ store' = store]_vars

\* The latest call is a create_contest call that failed on the name of a contest
\* that is not the active one, and another contest is still active.
C17_Witness ==
    \E p \in Procs :
        /\ DoneWith(p, "create_contest") /\ ret[p] = Raised("IntegrityError")
        /\ call[p].id = calls
        /\ \E i \in DOMAIN contests :
              contests[i].name = call[p].name /\ ~contests[i].is_active
        /\ \E j \in DOMAIN contests : contests[j].is_active

\* C18: with one call running at a time, a register call for a uid that has a
\* participant row returns the token of that row, the token stays as it was, and
\* the row that get_participant reads after the call carries the username of the
\* call.
C18_ReRegisterRefreshesUsername ==
    [][\A p \in Procs :
          ( /\ pc[p] = "register_select" /\ pc'[p] = "done"
            /\ HasRow(call[p].uid) )
              => /\ ret'[p] = Returned("token", participants[call[p].uid].token)
                 /\ \E r \in get_participant(participants', call[p].uid) :
                        /\ r.token = participants[call[p].uid].token
                        /\ r.username = call[p].username]_vars

\* C19: with one call running at a time, the row a register call inserts carries
\* the id of the contest that is active at that time, the one
\* get_active_contest_id returns, and while the row exists no step of any
\* operation changes its contest_id.
C19_ContestIdFixedAtRegistration ==
    [][\A uid \in Uids :
          /\ KeepsRow(uid) =>
                 participants'[uid].contest_id = participants[uid].contest_id
          /\ (~HasRow(uid) /\ HasRow(uid)') =>
                 /\ participants'[uid].contest_id \in DOMAIN contests
                 /\ contests[participants'[uid].contest_id].is_active
                 /\ get_active_contest_id(contests) = {participants'[uid].contest_id}]_vars

\* A participant registered under a contest that is no longer the active one has
\* since been decided and has confirmed, and is still bound to that contest.
C19_Witness ==
    \E uid \in Uids :
        /\ HasRow(uid)
        /\ participants[uid].contest_id \in DOMAIN contests
        /\ ~contests[participants[uid].contest_id].is_active
        /\ get_active_contest_id(contests) # NULL
        /\ participants[uid].decision # NULL
        /\ RowsOf(submissions, uid) >= 1

\* C20: a reset call, from whatever state it starts in, returns normally and
\* leaves no participant, no submission and no contest: get_participant finds no
\* row for any uid, get_all_contests is empty and get_active_contest_id is None.
C20_ResetEmptiesStore ==
    [][\A p \in Procs :
          (Starts(p) /\ call'[p].kind = "reset")
              => /\ pc'[p] = "done"
                 /\ ret'[p] = Returned("ok", 0)
                 /\ \A uid \in Uids : get_participant(participants', uid) = NULL
                 /\ submissions' = <<>>
                 /\ get_all_contests(contests') = {}
                 /\ get_active_contest_id(contests') = NULL]_vars

\* The latest call is a reset call that returned; a contest had been created, a
\* participant registered and a confirmation stamped before it, and all three
\* tables are empty.
C20_Witness ==
    \E p \in Procs :
        /\ DoneWith(p, "reset") /\ ret[p] = Returned("ok", 0)
        /\ call[p].id = calls
        /\ contestSeq >= 1 /\ tokenSeq >= 1 /\ clock >= 1
        /\ contests = <<>> /\ participants = <<>> /\ submissions = <<>>

\* A participant that pending is to list: bound to the contest that is active,
\* awaiting approval, no decision.
IsPending(uid) ==
    /\ HasRow(uid)
    /\ {participants[uid].contest_id} = get_active_contest_id(contests)
    /\ participants[uid].status = "awaiting_approval"
    /\ participants[uid].decision = NULL

\* The time of the submission of uid that is last in the log.
LastSubmissionTime(uid) ==
    LET rows == {i \in DOMAIN submissions : submissions[i].uid = uid}
    IN  submissions[CHOOSE i \in rows : \A j \in rows : j <= i].received_at

C22_RegisterFallsBackToDefault ==
    [][\A p \in Procs :
          ( /\ pc[p] = "register_insert" /\ pc'[p] = "done"
            /\ ~HasRow(call[p].uid)
            /\ get_active_contest_id(contests) = NULL )
              => /\ ret'[p].tag = "token"
                 /\ HasRow(call[p].uid)'
                 /\ participants'[call[p].uid].token = ret'[p].val
                 /\ participants'[call[p].uid].status = "registered"
                 /\ participants'[call[p].uid].contest_id = DefaultContestId]_vars

\* C23: in every reachable state every participant row is bound to a contest row
\* that exists, and every submission row belongs to a participant row that exists.
C23_NoDanglingReferences ==
    /\ \A uid \in DOMAIN participants :
          participants[uid].contest_id \in DOMAIN contests
    /\ \A i \in DOMAIN submissions :
          submissions[i].uid \in DOMAIN participants

\* A register call made with no active contest has been turned away by the
\* foreign key, and the store holds a participant with a submission.
C23_Witness ==
    /\ \E p \in Procs :
          DoneWith(p, "register") /\ ret[p] = Raised("IntegrityError")
    /\ \E uid \in Uids : HasRow(uid) /\ RowsOf(submissions, uid) >= 1

\* Caller p is at the write step of the given method for uid, and takes it.
Writes(p, at, uid) == pc[p] = at /\ pc'[p] # at /\ call[p].uid = uid

\* C24: with one call running at a time, every step that changes the status of a
\* participant is the write of confirm taking it from registered to
\* submitted_for_current_contest, the write of promote taking it from
\* submitted_for_current_contest to awaiting_approval, or the write of decide
\* taking it from awaiting_approval to approved or rejected.
C24_OnlyLegalTransitions ==
    [][\A uid \in Uids :
          (KeepsRow(uid) /\ participants'[uid].status # participants[uid].status)
              => \/ /\ participants[uid].status = "registered"
                    /\ participants'[uid].status = "submitted_for_current_contest"
                    /\ \E p \in Procs : Writes(p, "confirm_write", uid)
                 \/ /\ participants[uid].status = "submitted_for_current_contest"
                    /\ participants'[uid].status = "awaiting_approval"
                    /\ \E p \in Procs : Writes(p, "promote_update", uid)
                 \/ /\ participants[uid].status = "awaiting_approval"
                    /\ participants'[uid].status \in Terminal
                    /\ \E p \in Procs : Writes(p, "decide_update", uid)]_vars

\* C25: in every reachable state, under any interleaving, every participant has
\* status approved or rejected exactly when it has a decision, the decision is
\* then equal to the status, and decided_at and decision_by are set exactly when
\* the decision is.
C25_DecisionAgreesWithStatus ==
    \A uid \in DOMAIN participants :
        LET row == participants[uid]
        IN  /\ (row.status \in Terminal) <=> (row.decision # NULL)
            /\ row.decision # NULL => row.decision = {row.status}
            /\ (row.decided_at # NULL) <=> (row.decision # NULL)
            /\ (row.decision_by # NULL) <=> (row.decision # NULL)

\* Two decide calls with different actions have both written after both had
\* selected the undecided row, and a confirm call has written as well.
C25_Witness ==
    \E p \in Procs, q \in Procs :
        /\ DoneWith(p, "decide") /\ DoneWith(q, "decide")
        /\ call[p].uid = call[q].uid /\ call[p].action # call[q].action
        /\ ~SelectedDecided(p) /\ ~SelectedDecided(q)
        /\ HasRow(call[p].uid)
        /\ participants[call[p].uid].status \in Terminal
        /\ RowsOf(submissions, call[p].uid) >= 1

\* Caller p is inside init(): queued at the lock, or in the schema block.
InInit(p) == pc[p] \in {"init_wait", "init_create", "init_mark"}

\* Caller p's init() returns in this step.
InitReturns(p) == pc[p] # "select_contests" /\ pc'[p] = "select_contests"

\* C26: on a new Storage object with callers arriving together, the schema block
\* runs at most once and one caller at a time is in it; a caller that is past
\* init() finds _initialized set and the schema committed by exactly one run, and
\* its query never meets a missing table; and every caller that is inside init()
\* gets out of it.
C26_InitGateOnce ==
    /\ [](/\ gate.creations <= 1
          /\ Cardinality({p \in Callers : pc[p] \in {"init_create", "init_mark"}}) <= 1
          /\ \A p \in Callers :
                /\ pc[p] = "select_contests"
                      => gate.initialized /\ gate.tables /\ gate.creations = 1
                /\ ret[p] # Raised("OperationalError"))
    /\ \A p \in Callers : InInit(p) ~> ~InInit(p)

\* The schema block has run once and _initialized is set; of three callers that
\* arrived before that, the second has been let through the lock and the third
\* is still queued.
C26_Witness ==
    \E p \in Callers :
        /\ pc[p] = "init_wait"
        /\ gate.initialized /\ gate.creations = 1
        /\ gate.acquired = 2
        /\ calls = 3

\* C27 as stated: once _initialized is set, no step acquires the lock.
C27_GateNeverAcquiredAgain ==
    [][gate.initialized => gate'.acquired = gate.acquired]_vars

\* C27, amended: once _initialized is set it stays set and the schema block does
\* not run again, but every init() that returns has acquired the lock in the step
\* of its return, and has released it.
C27_GateAcquiredByEveryInit ==
    [][gate.initialized =>
          /\ gate'.initialized
          /\ gate'.creations = gate.creations
          /\ \A p \in Callers :
                /\ pc'[p] \notin {"init_create", "init_mark"}
                /\ InitReturns(p) => /\ gate'.acquired = gate.acquired + 1
                                     /\ ~gate'.locked]_vars

\* The fourth call, made by a caller whose earlier call went through init(), is
\* past init(): the lock has been acquired once per call and the schema block has
\* run once.
C27_Witness ==
    \E p \in Callers :
        /\ call[p].id = 4
        /\ pc[p] = "select_contests"
        /\ gate.initialized
        /\ gate.acquired = 4
        /\ gate.creations = 1

====
